---- MODULE Spec2Model ----
(***************************************************************************)
(* local-coder: the agent loop of agent.py (Agent.run and                  *)
(* Agent._execute_tool_call), the frame stream of llm.py                   *)
(* (OllamaClient.chat_stream), the tool registry of tools.py with         *)
(* edit_file, the project memory of memory.py (MemoryStore), the           *)
(* collaborator prompts and the stream scanner of ui.py and the REPL of    *)
(* main.py.                                                                *)
(*                                                                         *)
(* Text is a sequence of characters, each a string of length one; a text   *)
(* frame carries a non-empty text.                                         *)
(* A tool call is its name; what its arguments and the file system make    *)
(* of it is the nondeterministic outcome of the step that executes it.     *)
(***************************************************************************)
EXTENDS Integers, Sequences, FiniteSets

VARIABLES
    history,        \* Agent.history: the list of turns
    pc,             \* where Agent.run is: "idle" (not running), "stream",
                    \* "dispatch", "approval", "question", "execute"
    round,          \* number of iterations of the for loop started in the latest run
    full_text,      \* local full_text of the current round
    tool_calls,     \* local tool_calls of the current round
    idx,            \* position in tool_calls of the call being processed
    outcome,        \* how the latest run ended, as main.py sees it
    memories,       \* MemoryStore.memories
    disk,           \* the records in .coder/memories.jsonl
    memory_count,   \* CursesUI.memory_count
    store,          \* where the process is with the MemoryStore: "ready", inside
                    \* _save ("save": about to open the file, "write": file
                    \* open), or "down" (no process)
    before,         \* history variable: MemoryStore.memories and the file when
                    \* the add or delete under way began (as they are, when
                    \* none is under way)
    turns,          \* number of user turns so far (bounded by the guards)
    frames,         \* number of text and tool-call frames so far (bounded by the guards)
    event,          \* history variable: the last step and the state it started from
    log,            \* history variable: what the latest run did with each call
    round_hist,     \* history variable: Agent.history when the current round began
    cuts,           \* history variable: the lengths full_text had after each
                    \* text frame of the stream being read
    all_tool_rounds, \* history variable: every stream of this run so far ended
                    \* normally with a non-empty batch free of task_complete
    planning,       \* Agent.planning
    model,          \* OllamaClient.model, with CursesUI.model
    processes,      \* the processes that commands of run_command started and
                    \* that are still running after it returned: "none" or "left"
    _stream_buf,    \* CursesUI._stream_buf: the text shown as the agent's
    _thinking,      \* CursesUI._thinking
    _think_buf,     \* CursesUI._think_buf: the text shown as thinking
    file            \* the file that the path of edit_file names: whether it
                    \* exists, and its characters

vars == <<history, pc, round, full_text, tool_calls, idx, outcome, memories, disk,
          memory_count, store, before, turns, frames, event, log, round_hist, cuts,
          all_tool_rounds, planning, model, processes, _stream_buf, _thinking,
          _think_buf, file>>

memvars == <<memories, disk, memory_count, store, before>>

agentvars == <<history, pc, round, full_text, tool_calls, idx, outcome, turns, frames,
               log, round_hist, cuts, all_tool_rounds, planning, model, processes,
               _stream_buf, _thinking, _think_buf, file>>

\* What /plan and /model set
settings == <<planning, model>>

\* The state of the scanner of ui.py
scanner == <<_stream_buf, _thinking, _think_buf>>

----------------------------------------------------------------------------
(* Bounds of the model *)

MaxTurns == 2
MaxFrames == 2
MaxLongTurns == 1
MaxPieces == 2
MaxRecords == 3
MaxDamage == 1
MaxWords == 905
MaxK == 2

----------------------------------------------------------------------------
(* Program constants and registries *)

max_tool_rounds == 15

\* MemoryStore._chunk: max_tokens and overlap
max_tokens == 500
overlap == 50

APPROVAL_REQUIRED_WithoutEdit == {"run_command", "write_file"}

APPROVAL_REQUIRED == {"run_command", "write_file", "edit_file"}

TOOL_FUNCTIONS ==
    {"read_file", "write_file", "edit_file", "run_command", "search_files",
     "search_content"}

AgentTools == {"ask_user", "remember", "recall", "task_complete"}

\* The names the modelled backend asks for: every branch of
\* _execute_tool_call and of execute_tool has one ("bogus" is in no registry).
ToolNames ==
    {"ask_user", "remember", "recall", "task_complete", "run_command",
     "write_file", "edit_file", "read_file", "bogus"}

OpenTag == <<"<", "t", "h", "i", "n", "k", ">">>

CloseTag == <<"<", "/", "t", "h", "i", "n", "k", ">">>

\* The text frames of the session: a visible character, a whitespace
\* character and the two delimiters of a thinking block.
Symbols == {<<"a">>, <<" ">>, OpenTag, CloseTag}

Whitespace == {" ", "\n"}

----------------------------------------------------------------------------
(* Text: re.sub(r"<think>.*?</think>", "", full_text, flags=DOTALL).strip() *)

\* p occurs in s at position i
At(s, i, p) == i + Len(p) - 1 <= Len(s) /\ SubSeq(s, i, i + Len(p) - 1) = p

\* The positions where a closing delimiter can end a block opened at 1.
Closers(s) == {j \in (Len(OpenTag) + 1)..Len(s) : At(s, j, CloseTag)}

FirstCloser(s) == CHOOSE j \in Closers(s) : \A k \in Closers(s) : j <= k

\* The same substitution without the DOTALL flag: "." matches no newline.
RECURSIVE sub_think_NoDotAll(_)
sub_think_NoDotAll(s) ==
    IF s = <<>> THEN <<>>
    ELSE IF /\ At(s, 1, OpenTag)
            /\ Closers(s) # {}
            /\ \A k \in (Len(OpenTag) + 1)..(FirstCloser(s) - 1) : s[k] # "\n"
         THEN sub_think_NoDotAll(SubSeq(s, FirstCloser(s) + Len(CloseTag), Len(s)))
         ELSE <<Head(s)>> \o sub_think_NoDotAll(Tail(s))

\* Leftmost match first; each match runs from an opening delimiter to the
\* nearest closing delimiter after it (.*? is lazy, "." matches anything);
\* the search resumes after the match.
RECURSIVE sub_think(_)
sub_think(s) ==
    IF s = <<>> THEN <<>>
    ELSE IF At(s, 1, OpenTag) /\ Closers(s) # {}
         THEN sub_think(SubSeq(s, FirstCloser(s) + Len(CloseTag), Len(s)))
         ELSE <<Head(s)>> \o sub_think(Tail(s))

RECURSIVE lstrip(_)
lstrip(s) == IF s # <<>> /\ Head(s) \in Whitespace THEN lstrip(Tail(s)) ELSE s

RECURSIVE rstrip(_)
rstrip(s) ==
    IF s # <<>> /\ s[Len(s)] \in Whitespace
    THEN rstrip(SubSeq(s, 1, Len(s) - 1))
    ELSE s

strip(s) == rstrip(lstrip(s))

clean_text(text) == strip(sub_think(text))

----------------------------------------------------------------------------
(* Turns *)

user_msg == [role |-> "user", content |-> <<"u">>, tool_calls |-> <<>>]

assistant_msg(clean, tcs) ==
    [role |-> "assistant", content |-> clean, tool_calls |-> tcs]

\* A tool-role turn.  Its content is the result text: what kind of result it
\* is, the call it answers and, for ask_user, the answer.
tool_msg(content) == [role |-> "tool", content |-> content, tool_calls |-> <<>>]

denial_msg(name) == tool_msg(<<"User denied execution of", name>>)

RecordAlways(clean, tcs) == TRUE

\* agent.py line 71: if clean_text or tool_calls
ShouldRecord(clean, tcs) == clean # <<>> \/ tcs # <<>>

TerminalNever(name) == FALSE

\* agent.py line 103: if name == "task_complete"
IsTerminal(name) == name = "task_complete"

\* execute_tool: an unknown name gives an error text; a registered function
\* gives its text, or an error text (its own, or the one made from the
\* exception it raised).  The text of read_file is "" for a file without
\* lines and for a range of lines beyond the end of the file.
execute_tool(name) ==
    IF name \notin TOOL_FUNCTIONS THEN {"Error"}
    ELSE IF name = "read_file" THEN {"ok", "Error", ""}
    ELSE {"ok", "Error"}

----------------------------------------------------------------------------
(* memory.py: MemoryStore.  A word is a number (word n of a vocabulary); a  *)
(* text is its words and whether the whitespace in it is as it was typed   *)
(* or one space between the words; a record has the id, content, tags and  *)
(* type of a memory (its timestamp is left out).                           *)

Min(a, b) == IF a <= b THEN a ELSE b

Text(words) == [words |-> words, ws |-> "typed"]

\* " ".join(words)
join(words) == [words |-> words, ws |-> "single"]

\* The while loop of _chunk, from i on.
RECURSIVE windows(_, _)
windows(words, i) ==
    IF i < Len(words)
    THEN <<join(SubSeq(words, i + 1, Min(i + max_tokens, Len(words))))>>
           \o windows(words, i + (max_tokens - overlap))
    ELSE <<>>

_chunk(text) ==
    IF Len(text.words) <= max_tokens THEN <<text>> ELSE windows(text.words, 0)

\* uuid.uuid4().hex[:12]: any value of the id space.
Ids == {"id1", "id2"}

\* MemoryStore.add, up to _save: one record per chunk, ids[j] the id drawn
\* for chunk j.
add(content, tags, mem_type, ids) ==
    memories \o [j \in 1..Len(_chunk(content)) |->
                   [id |-> ids[j], content |-> _chunk(content)[j], tags |-> tags,
                    type |-> mem_type]]

\* The characters between two words of a text: one space after join, and
\* in a text as the caller gave it a line feed, the character that ends a
\* line of the file.
separator(text) == IF text.ws = "single" THEN <<" ">> ELSE <<"\n">>

\* Every character written as it is
escape_Raw(s) == s

\* The body of the string literal that json.dumps writes for s: a line
\* feed, a quotation mark and a backslash are written as a backslash and a
\* second character.
RECURSIVE escape(_)
escape(s) ==
    IF s = <<>> THEN <<>>
    ELSE (IF Head(s) = "\n" THEN <<"\\", "n">>
          ELSE IF Head(s) \in {"\"", "\\"} THEN <<"\\", Head(s)>>
          ELSE <<Head(s)>>) \o escape(Tail(s))

\* The string that json.loads reads from the body of a string literal
RECURSIVE unescape(_)
unescape(s) ==
    IF s = <<>> THEN <<>>
    ELSE IF Head(s) = "\\" /\ Len(s) > 1
         THEN <<IF s[2] = "n" THEN "\n" ELSE s[2]>> \o unescape(Tail(Tail(s)))
         ELSE <<Head(s)>> \o unescape(Tail(s))

\* A line of memories.jsonl: json.dumps(mem) + "\n".  The words of the
\* content are written as they are, the characters between them escaped.
dumps(mem) ==
    [line |-> "json",
     value |-> [mem EXCEPT !.content =
                  [words |-> @.words, ws |-> escape(separator(@))]]]

\* What _save leaves in the file when it completes.
saved(mems) == [i \in 1..Len(mems) |-> dumps(mems[i])]

\* The arguments of the memory calls of a session of the agent.
ShortText == Text(<<1>>)

----------------------------------------------------------------------------
(* History variables *)

Ev(kind, name) ==
    [kind |-> kind, name |-> name, idx |-> idx, n |-> Len(tool_calls),
     round |-> round, text |-> full_text, hlen |-> Len(history), cuts |-> cuts,
     shown |-> _stream_buf]

Logged(op) ==
    Append(log, [round |-> round, idx |-> idx, n |-> Len(tool_calls), op |-> op,
                 name |-> tool_calls[idx]])

NonTerminalBatch(batch) ==
    batch # <<>> /\ \A i \in 1..Len(batch) : batch[i] # "task_complete"

----------------------------------------------------------------------------
(* Ways a step of Agent.run goes on *)

\* run returns or raises: its locals are gone.
Leave(h, how) ==
    /\ history' = h
    /\ pc' = "idle"
    /\ outcome' = how
    /\ full_text' = <<>>
    /\ tool_calls' = <<>>
    /\ idx' = 0
    /\ UNCHANGED <<round, round_hist>>

\* A loop that goes on as long as the backend asks for tools
GoOnUnbounded(h) ==
    IF idx < Len(tool_calls)
    THEN /\ history' = h
         /\ idx' = idx + 1
         /\ pc' = "dispatch"
         /\ UNCHANGED <<round, round_hist, full_text, tool_calls, outcome>>
    ELSE /\ history' = h
         /\ round' = round + 1
         /\ round_hist' = h
         /\ pc' = "stream"
         /\ full_text' = <<>>
         /\ tool_calls' = <<>>
         /\ idx' = 0
         /\ UNCHANGED outcome

\* The next call of the batch, or the next iteration of the for loop, or the
\* end of the loop (agent.py line 106).
GoOn(h) ==
    IF idx < Len(tool_calls)
    THEN /\ history' = h
         /\ idx' = idx + 1
         /\ pc' = "dispatch"
         /\ UNCHANGED <<round, round_hist, full_text, tool_calls, outcome>>
    ELSE IF round < max_tool_rounds
    THEN /\ history' = h
         /\ round' = round + 1
         /\ round_hist' = h
         /\ pc' = "stream"
         /\ full_text' = <<>>
         /\ tool_calls' = <<>>
         /\ idx' = 0
         /\ UNCHANGED outcome
    ELSE Leave(h, "max_rounds")

AfterDenialStop(h) == Leave(h, "returned")

\* agent.py line 97: continue
AfterDenial(h) == GoOn(h)

\* agent.py lines 101-104
AfterResult(h, name) ==
    IF IsTerminal(name) THEN Leave(h, "returned") ELSE GoOn(h)

----------------------------------------------------------------------------
(* main.py: the REPL *)

Init ==
    /\ history = <<>>
    /\ pc = "idle"
    /\ round = 0
    /\ full_text = <<>>
    /\ tool_calls = <<>>
    /\ idx = 0
    /\ outcome = "none"
    /\ memories = <<>>
    /\ disk = <<>>
    /\ memory_count = 0
    /\ store = "ready"
    /\ before = [memories |-> <<>>, disk |-> <<>>]
    /\ turns = 0
    /\ frames = 0
    /\ event = [kind |-> "init", name |-> "", idx |-> 0, n |-> 0, round |-> 0,
                text |-> <<>>, hlen |-> 0, cuts |-> {}]
    /\ log = <<>>
    /\ round_hist = <<>>
    /\ cuts = {}
    /\ all_tool_rounds = FALSE
    /\ planning = FALSE
    /\ model = "qwen3:8b"
    /\ processes = "none"
    /\ file = [exists |-> FALSE, data |-> <<>>]
    /\ _stream_buf = <<>>
    /\ _thinking = FALSE
    /\ _think_buf = <<>>

\* A line that is no command: agent.run(user_input), up to the first wait for
\* a frame.
BeginRun ==
    /\ pc = "idle"
    /\ history' = Append(history, user_msg)
    /\ round_hist' = history'
    /\ round' = 1
    /\ pc' = "stream"
    /\ full_text' = <<>>
    /\ tool_calls' = <<>>
    /\ idx' = 0
    /\ outcome' = "running"
    /\ turns' = turns + 1
    /\ event' = Ev("user", "")
    /\ log' = <<>>
    /\ all_tool_rounds' = TRUE
    /\ UNCHANGED <<memvars, frames, cuts>>
    /\ UNCHANGED <<settings, processes, scanner, file>>

UserTurn == turns < MaxTurns /\ BeginRun

\* /plan: agent.set_planning(not agent.planning)
Plan ==
    /\ pc = "idle"
    /\ planning' = ~planning
    /\ event' = Ev("plan", "")
    /\ UNCHANGED <<history, pc, round, full_text, tool_calls, idx, outcome, memvars,
                   turns, frames, log, round_hist, cuts, all_tool_rounds, model,
                   processes, scanner, file>>

\* The names a /model command is given
Models == {"qwen3:8b", "llama3"}

\* /model <name>
SetModel ==
    \E arg \in Models :
        /\ pc = "idle"
        /\ model' = arg
        /\ event' = Ev("model", arg)
        /\ UNCHANGED <<history, pc, round, full_text, tool_calls, idx, outcome,
                       memvars, turns, frames, log, round_hist, cuts,
                       all_tool_rounds, planning, processes, scanner,
                       file>>

ResetSession ==
    /\ pc = "idle"
    /\ history' = <<>>
    /\ planning' = FALSE
    /\ event' = Ev("reset", "")
    /\ log' = <<>>
    /\ round_hist' = <<>>
    /\ UNCHANGED <<pc, round, full_text, tool_calls, idx, outcome, memvars, turns,
                   frames, cuts, all_tool_rounds, model, processes, scanner,
                   file>>

\* /clear: Agent.reset
Reset ==
    /\ pc = "idle"
    /\ history' = <<>>
    /\ event' = Ev("reset", "")
    /\ log' = <<>>
    /\ round_hist' = <<>>
    /\ UNCHANGED <<pc, round, full_text, tool_calls, idx, outcome, memvars, turns,
                   frames, cuts, all_tool_rounds>>
    /\ UNCHANGED <<settings, processes, scanner, file>>

----------------------------------------------------------------------------
(* agent.py lines 48-61 with llm.py lines 65-92: one frame of the stream *)

\* The position of the first occurrence of p in s
find(s, p) == CHOOSE i \in 1..Len(s) : At(s, i, p) /\ \A j \in 1..(i - 1) : ~At(s, j, p)

\* p in s
Contains(s, p) == \E i \in 1..Len(s) : At(s, i, p)

\* before, _, after = s.partition(p), when p is in s
partition(s, p) ==
    [before |-> SubSeq(s, 1, find(s, p) - 1),
     after |-> SubSeq(s, find(s, p) + Len(p), Len(s))]

\* CursesUI.stream_token
stream_token(token) ==
    LET combined == _stream_buf \o token
    IN  IF Contains(combined, OpenTag) /\ ~_thinking
        THEN /\ _stream_buf' = partition(combined, OpenTag).before
             /\ _thinking' = TRUE
             /\ _think_buf' = partition(combined, OpenTag).after
        ELSE IF _thinking
        THEN IF Contains(_think_buf \o token, CloseTag)
             THEN /\ _thinking' = FALSE
                  /\ _think_buf' = <<>>
                  /\ _stream_buf' = _stream_buf
                                      \o partition(_think_buf \o token, CloseTag).after
             ELSE /\ _think_buf' = _think_buf \o token
                  /\ UNCHANGED <<_stream_buf, _thinking>>
        ELSE /\ _stream_buf' = combined
             /\ UNCHANGED <<_thinking, _think_buf>>

\* CursesUI.stream_end
stream_end ==
    /\ _thinking' = FALSE
    /\ _think_buf' = <<>>
    /\ _stream_buf' = <<>>

RecvText(data) ==
    /\ pc = "stream"
    /\ full_text' = full_text \o data
    /\ cuts' = cuts \cup {Len(full_text')}
    /\ frames' = frames + 1
    /\ event' = Ev("text", "")
    /\ UNCHANGED <<history, pc, round, tool_calls, idx, outcome, memvars, turns,
                   log, round_hist, all_tool_rounds>>
    /\ stream_token(data)
    /\ UNCHANGED <<settings, processes, file>>

RecvToolCall(name) ==
    /\ pc = "stream"
    /\ tool_calls' = Append(tool_calls, name)
    /\ frames' = frames + 1
    /\ event' = Ev("tool_call", name)
    /\ UNCHANGED <<history, pc, round, full_text, idx, outcome, memvars, turns,
                   log, round_hist, cuts, all_tool_rounds>>
    /\ UNCHANGED <<settings, processes, scanner, file>>

\* except Exception: stream_end, show_error, return
AbortKeepingText(kind) ==
    /\ Leave(IF clean_text(full_text) # <<>>
             THEN Append(history, assistant_msg(clean_text(full_text), <<>>))
             ELSE history, "llm_error")
    /\ event' = Ev(kind, "")
    /\ all_tool_rounds' = FALSE
    /\ cuts' = {}
    /\ UNCHANGED <<memvars, turns, frames, log>>
    /\ stream_end
    /\ UNCHANGED <<settings, processes, file>>

AbortDroppingTurn(kind) ==
    /\ Leave(SubSeq(history, 1, Len(history) - 1), "llm_error")
    /\ event' = Ev(kind, "")
    /\ all_tool_rounds' = FALSE
    /\ cuts' = {}
    /\ UNCHANGED <<memvars, turns, frames, log>>
    /\ stream_end
    /\ UNCHANGED <<settings, processes, file>>

Abort(kind) ==
    /\ Leave(history, "llm_error")
    /\ event' = Ev(kind, "")
    /\ all_tool_rounds' = FALSE
    /\ cuts' = {}
    /\ UNCHANGED <<memvars, turns, frames, log>>
    /\ stream_end
    /\ UNCHANGED <<settings, processes, file>>

\* The connection fails or times out while the frames are read.
StreamError == pc = "stream" /\ Abort("stream_error")

\* A line that json.loads rejects, or a frame without the expected keys: the
\* exception leaves the generator like any other.
MalformedFrame == pc = "stream" /\ Abort("malformed_frame")

\* except KeyboardInterrupt: stream_end, raise; main.py shows "Interrupted."
InterruptStream ==
    /\ pc = "stream"
    /\ Leave(history, "interrupted")
    /\ event' = Ev("interrupt_stream", "")
    /\ all_tool_rounds' = FALSE
    /\ cuts' = {}
    /\ UNCHANGED <<memvars, turns, frames, log>>
    /\ stream_end
    /\ UNCHANGED <<settings, processes, file>>

\* The done frame, or the end of the lines: agent.py lines 63-82.
StreamEnd ==
    /\ pc = "stream"
    /\ LET clean == clean_text(full_text)
           h == IF ShouldRecord(clean, tool_calls)
                THEN Append(history, assistant_msg(clean, tool_calls))
                ELSE history
       IN  IF tool_calls = <<>>
           THEN Leave(h, "returned")
           ELSE /\ history' = h
                /\ pc' = "dispatch"
                /\ idx' = 1
                /\ full_text' = <<>>
                /\ UNCHANGED <<round, round_hist, tool_calls, outcome>>
    /\ event' = Ev("stream_end", "")
    /\ all_tool_rounds' = (all_tool_rounds /\ NonTerminalBatch(tool_calls))
    /\ cuts' = {}
    /\ UNCHANGED <<memvars, turns, frames, log>>
    /\ stream_end
    /\ UNCHANGED <<settings, processes, file>>

----------------------------------------------------------------------------
(* agent.py lines 85-104 with _execute_tool_call, lines 108-158 *)

CurrentFromTheEnd == tool_calls[Len(tool_calls) - idx + 1]

\* for tc in tool_calls: name = tc["name"]
Current == tool_calls[idx]

\* ask_user: get_question_response blocks on the collaborator.
AskUser ==
    /\ pc = "dispatch"
    /\ Current = "ask_user"
    /\ pc' = "question"
    /\ event' = Ev("ask", Current)
    /\ log' = Logged("question")
    /\ UNCHANGED <<history, round, full_text, tool_calls, idx, outcome, memvars,
                   turns, frames, cuts, round_hist, all_tool_rounds>>
    /\ UNCHANGED <<settings, processes, scanner, file>>

Answered(kind, answer) ==
    /\ pc = "question"
    /\ AfterResult(Append(history, tool_msg(<<"User answered:", Current, answer>>)), Current)
    /\ event' = Ev(kind, Current)
    /\ log' = Logged("answer")
    /\ UNCHANGED <<memvars, turns, frames, cuts, all_tool_rounds>>
    /\ UNCHANGED <<settings, processes, scanner, file>>

Answer == \E a \in {"text", ""} : Answered("answered", a)

\* Ctrl+C at the question: get_input returns None, get_question_response "".
InterruptQuestion == Answered("interrupt_question", "")

\* agent.py lines 115-129: remember with a content of at most max_tokens words
Remembers(content) ==
    /\ pc = "dispatch"
    /\ Current = "remember"
    /\ \E id \in Ids : memories' = add(content, <<>>, "project", <<id>>)
    /\ disk' = saved(memories')
    /\ memory_count' = Len(memories')
    /\ before' = [memories |-> memories', disk |-> disk']
    /\ UNCHANGED store
    /\ AfterResult(Append(history, tool_msg(<<"Saved to memory", Current>>)), Current)
    /\ event' = Ev("remembered", Current)
    /\ log' = Logged("agent")
    /\ UNCHANGED <<turns, frames, cuts, all_tool_rounds>>
    /\ UNCHANGED <<settings, processes, scanner, file>>

Remember == Remembers(ShortText)

Recall ==
    /\ pc = "dispatch"
    /\ Current = "recall"
    /\ \E found \in (IF memories = <<>> THEN {FALSE} ELSE BOOLEAN) :
         AfterResult(Append(history,
             tool_msg(<<IF found THEN "memories" ELSE "No relevant memories found.",
                        Current>>)), Current)
    /\ event' = Ev("recalled", Current)
    /\ log' = Logged("agent")
    /\ UNCHANGED <<memvars, turns, frames, cuts, all_tool_rounds>>
    /\ UNCHANGED <<settings, processes, scanner, file>>

TaskComplete ==
    /\ pc = "dispatch"
    /\ Current = "task_complete"
    /\ \E id \in Ids : memories' = add(ShortText, <<>>, "task", <<id>>)
    /\ disk' = saved(memories')
    /\ memory_count' = Len(memories')
    /\ before' = [memories |-> memories', disk |-> disk']
    /\ UNCHANGED store
    /\ AfterResult(Append(history, tool_msg(<<"Task summary saved to memory.", Current>>)),
                   Current)
    /\ event' = Ev("task_complete", Current)
    /\ log' = Logged("agent")
    /\ UNCHANGED <<turns, frames, cuts, all_tool_rounds>>
    /\ UNCHANGED <<settings, processes, scanner, file>>

\* An agent-level call raises before it changes anything (remember with tags
\* that are no string, task_complete with a summary that is no string, recall
\* over a stored record without content): nothing in _execute_tool_call or
\* run catches it, main.py shows "Agent error".
AgentToolRaises ==
    /\ pc = "dispatch"
    /\ Current \in {"remember", "recall", "task_complete"}
    /\ Leave(history, "agent_error")
    /\ event' = Ev("tool_raised", Current)
    /\ log' = Logged("raised")
    /\ UNCHANGED <<memvars, turns, frames, cuts, all_tool_rounds>>
    /\ UNCHANGED <<settings, processes, scanner, file>>

\* _save raises (OSError) inside add: the record is in the list, the file is
\* as it was or holds a proper prefix of the new list, the count is not updated.
SaveRaises ==
    /\ pc = "dispatch"
    /\ Current \in {"remember", "task_complete"}
    /\ \E id \in Ids :
         memories' = add(ShortText, <<>>,
                         IF Current = "remember" THEN "project" ELSE "task", <<id>>)
    /\ \E k \in 0..Len(memories) :
         disk' \in {disk, SubSeq(saved(memories'), 1, k)}
    /\ before' = [memories |-> memories', disk |-> disk']
    /\ UNCHANGED <<memory_count, store>>
    /\ Leave(history, "agent_error")
    /\ event' = Ev("tool_raised", Current)
    /\ log' = Logged("raised")
    /\ UNCHANGED <<turns, frames, cuts, all_tool_rounds>>
    /\ UNCHANGED <<settings, processes, scanner, file>>

\* agent.py lines 153-155: the approval gate; get_approval blocks.
RequestApproval ==
    /\ pc = "dispatch"
    /\ Current \notin AgentTools
    /\ Current \in APPROVAL_REQUIRED
    /\ pc' = "approval"
    /\ event' = Ev("approval_asked", Current)
    /\ log' = Logged("ask")
    /\ UNCHANGED <<history, round, full_text, tool_calls, idx, outcome, memvars,
                   turns, frames, cuts, round_hist, all_tool_rounds>>
    /\ UNCHANGED <<settings, processes, scanner, file>>

\* "y", "yes" or an empty reply
Approve ==
    /\ pc = "approval"
    /\ pc' = "execute"
    /\ event' = Ev("approved", Current)
    /\ log' = Logged("accept")
    /\ UNCHANGED <<history, round, full_text, tool_calls, idx, outcome, memvars,
                   turns, frames, cuts, round_hist, all_tool_rounds>>
    /\ UNCHANGED <<settings, processes, scanner, file>>

\* get_approval returns False, _execute_tool_call None: agent.py lines 91-97
Denied(kind) ==
    /\ pc = "approval"
    /\ AfterDenial(Append(history, denial_msg(Current)))
    /\ event' = Ev(kind, Current)
    /\ log' = Logged("deny")
    /\ UNCHANGED <<memvars, turns, frames, cuts, all_tool_rounds>>
    /\ UNCHANGED <<settings, processes, scanner, file>>

\* "n" or "no"
Deny == Denied("denied")

\* Ctrl+C at the prompt: get_input returns None, get_approval False.
InterruptApproval == Denied("interrupt_approval")

\* agent.py line 158 and lines 99-104
ExecuteTool ==
    /\ \/ pc = "execute"
       \/ pc = "dispatch" /\ Current \notin AgentTools /\ Current \notin APPROVAL_REQUIRED
    /\ \E r \in execute_tool(Current) :
         /\ AfterResult(Append(history,
                tool_msg(IF r = "" THEN <<>> ELSE <<r, Current>>)), Current)
         /\ event' = Ev(IF r = "Error" THEN "tool_error" ELSE "executed", Current)
    /\ log' = Logged(IF Current \in TOOL_FUNCTIONS THEN "run" ELSE "unknown")
    /\ UNCHANGED <<memvars, turns, frames, cuts, all_tool_rounds>>
    /\ UNCHANGED <<settings, processes, scanner, file>>

\* run_command: the command does not end within the deadline of
\* subprocess.run, which kills the shell it started, waits for it and raises
\* TimeoutExpired.  Processes that the shell started are not its own
\* process: they end with it or go on running.
CommandTimeout ==
    /\ pc = "execute"
    /\ Current = "run_command"
    /\ processes' \in {processes, "left"}
    /\ AfterResult(Append(history,
           tool_msg(<<"Error: Command timed out after 60 seconds.", Current>>)),
           Current)
    /\ event' = Ev("tool_timeout", Current)
    /\ log' = Logged("run")
    /\ UNCHANGED <<memvars, turns, frames, cuts, all_tool_rounds, settings, scanner,
                   file>>

----------------------------------------------------------------------------
(* The session: any user turns, any frames, any answers, within the bounds *)

BackendText ==
    \E s \in Symbols : frames < MaxFrames /\ RecvText(s)

BackendToolCall ==
    \E name \in ToolNames : frames < MaxFrames /\ RecvToolCall(name)

Next ==
    \/ UserTurn
    \/ Reset
    \/ BackendText
    \/ BackendToolCall
    \/ StreamEnd
    \/ StreamError
    \/ MalformedFrame
    \/ InterruptStream
    \/ AskUser
    \/ Answer
    \/ InterruptQuestion
    \/ Remember
    \/ Recall
    \/ TaskComplete
    \/ AgentToolRaises
    \/ SaveRaises
    \/ RequestApproval
    \/ Approve
    \/ Deny
    \/ InterruptApproval
    \/ ExecuteTool

Spec == Init /\ [][Next]_vars

----------------------------------------------------------------------------
(* The long run: a backend that asks for one remember call in every round, *)
(* with no bound on the frames, so that the for loop reaches its last      *)
(* iteration.                                                              *)

UserTurnLong == turns < MaxLongTurns /\ BeginRun

BackendRemember == tool_calls = <<>> /\ RecvToolCall("remember")

NextRounds ==
    \/ UserTurnLong
    \/ BackendRemember
    \/ StreamEnd
    \/ StreamError
    \/ InterruptStream
    \/ Remember
    \/ AgentToolRaises
    \/ SaveRaises

SpecRounds == Init /\ [][NextRounds]_vars

----------------------------------------------------------------------------
(* The stream of one round cut into frames: the backend's output is a       *)
(* thinking block with text around it, delivered in any pieces, and the    *)
(* stream may end after any of them.  "s" stands for the model's           *)
(* deliberation: it occurs in the outputs only inside the block.           *)

Pre == {<<>>, <<"a">>, <<" ">>}

Body == {<<"s">>, <<"\n", "s">>}

Post == {<<>>, <<"b">>, <<" ">>}

Outputs ==
    {pre \o OpenTag \o body \o CloseTag \o post :
        pre \in Pre, body \in Body, post \in Post}

\* The first line of a session that is no command.
FirstTurn == turns = 0 /\ BeginRun

\* The next frame carries the next characters of an output, any number of them.
BackendPiece ==
    \E o \in Outputs :
      \E k \in (Len(full_text) + 1)..Len(o) :
        /\ Cardinality(cuts) < MaxPieces
        /\ SubSeq(o, 1, Len(full_text)) = full_text
        /\ RecvText(SubSeq(o, Len(full_text) + 1, k))

NextText ==
    \/ FirstTurn
    \/ BackendPiece
    \/ StreamEnd

SpecText == Init /\ [][NextText]_vars

----------------------------------------------------------------------------
(* The MemoryStore step by step: its operations as the tool calls and the  *)
(* /memory commands of main.py invoke them, _save one file operation at a  *)
(* time, the process ending at any point and a later one loading the file. *)

LongText == Text([i \in 1..(max_tokens + 1) |-> i])

\* remember(content, tags), task_complete(summary)
AddCalls ==
    {<<ShortText, <<2>>, "project">>, <<ShortText, <<>>, "task">>,
     <<LongText, <<>>, "project">>, <<Text(<<1, 2>>), <<>>, "project">>}

Prefixes == {"id", "id1", "id2", "id3"}

\* id.startswith(prefix), for the ids and prefixes above
startswith(id, prefix) == prefix = "id" \/ prefix = id

Matches(prefix) == {i \in 1..Len(memories) : startswith(memories[i].id, prefix)}

LastMatch(prefix) == CHOOSE i \in Matches(prefix) : \A j \in Matches(prefix) : i >= j

\* for i, mem in enumerate(self.memories): the first i whose id matches
FirstMatch(prefix) == CHOOSE i \in Matches(prefix) : \A j \in Matches(prefix) : i <= j

\* self.memories.pop(i)
pop(i) == SubSeq(memories, 1, i - 1) \o SubSeq(memories, i + 1, Len(memories))

\* MemoryStore.add up to the call of _save
AddCalled ==
    \E call \in AddCalls :
      \E ids \in [1..Len(_chunk(call[1])) -> Ids] :
        /\ store = "ready"
        /\ Len(memories) + Len(_chunk(call[1])) <= MaxRecords
        /\ before' = [memories |-> memories, disk |-> disk]
        /\ memories' = add(call[1], call[2], call[3], ids)
        /\ store' = "save"
        /\ event' = Ev("add", "")
        /\ UNCHANGED <<disk, memory_count, agentvars>>

\* MemoryStore.delete up to the call of _save, or its return of False
DeleteCalled ==
    \E prefix \in Prefixes :
        /\ store = "ready"
        /\ before' = [memories |-> memories, disk |-> disk]
        /\ IF Matches(prefix) = {}
           THEN /\ event' = Ev("delete_false", prefix)
                /\ UNCHANGED <<memories, store>>
           ELSE /\ memories' = pop(FirstMatch(prefix))
                /\ store' = "save"
                /\ event' = Ev("delete", prefix)
        /\ UNCHANGED <<disk, memory_count, agentvars>>

\* open(self.path, "w")
SaveOpen ==
    /\ store = "save"
    /\ disk' = <<>>
    /\ store' = "write"
    /\ event' = Ev("save_open", "")
    /\ UNCHANGED <<memories, memory_count, before, agentvars>>

\* f.write(json.dumps(mem) + "\n")
SaveWrite ==
    /\ store = "write"
    /\ Len(disk) < Len(memories)
    /\ disk' = Append(disk, dumps(memories[Len(disk) + 1]))
    /\ event' = Ev("save_write", "")
    /\ UNCHANGED <<memories, memory_count, store, before, agentvars>>

SaveCloseEarly ==
    /\ store = "write"
    /\ store' = "ready"
    /\ memory_count' = Len(memories)
    /\ before' = [memories |-> memories, disk |-> disk]
    /\ event' = Ev("saved", "")
    /\ UNCHANGED <<memories, disk, agentvars>>

\* The file is closed, add or delete returns, and its caller sets the count.
SaveClose ==
    /\ store = "write"
    /\ Len(disk) = Len(memories)
    /\ store' = "ready"
    /\ memory_count' = Len(memories)
    /\ before' = [memories |-> memories, disk |-> disk]
    /\ event' = Ev("saved", "")
    /\ UNCHANGED <<memories, disk, agentvars>>

\* The process ends (/quit, a signal, power loss).  When it ends between
\* two writes the file may end in a part of the next line.
Exit ==
    /\ store # "down"
    /\ store' = "down"
    /\ memories' = <<>>
    /\ memory_count' = 0
    /\ \/ UNCHANGED disk
       \/ /\ store = "write"
          /\ Len(disk) < Len(memories)
          /\ disk' = Append(disk, [line |-> "torn"])
    /\ before' = [memories |-> memories', disk |-> disk']
    /\ event' = Ev("exit", "")
    /\ UNCHANGED agentvars

\* Between two sessions a line of the file is damaged: its bytes are no
\* text in the encoding the file is read with.
Damage ==
    \E i \in 1..Len(disk) :
        /\ store = "down"
        /\ Cardinality({j \in 1..Len(disk) : disk[j].line = "undecodable"}) < MaxDamage
        /\ disk[i].line # "undecodable"
        /\ disk' = [disk EXCEPT ![i] = [line |-> "undecodable"]]
        /\ before' = [memories |-> memories, disk |-> disk']
        /\ event' = Ev("damage", "")
        /\ UNCHANGED <<memories, memory_count, store, agentvars>>

\* json.loads(line) in _load: the record of a line that _save wrote
loads(line) ==
    [line.value EXCEPT !.content =
       [words |-> @.words,
        ws |-> IF unescape(@.ws) = <<" ">> THEN "single" ELSE "typed"]]

\* for line in f: a line feed in the text of a record ends the line there
Cut(line) ==
    /\ Len(line.value.content.words) > 1
    /\ \E i \in 1..Len(line.value.content.ws) : line.value.content.ws[i] = "\n"

\* json.loads raises JSONDecodeError for this line: it was not written to
\* its end, or the for loop gave it in two parts.
Unparseable(line) == line.line = "torn" \/ (line.line = "json" /\ Cut(line))

\* reading this line from the file raises UnicodeDecodeError
Undecodable(line) == line.line = "undecodable"

RECURSIVE _load(_)
_load(lines) ==
    IF lines = <<>> THEN <<>>
    ELSE IF Unparseable(Head(lines)) THEN _load(Tail(lines))
    ELSE <<loads(Head(lines))>> \o _load(Tail(lines))

\* main.py: MemoryStore(project_dir=chosen) at startup.  A line that cannot
\* be decoded raises out of the for loop of _load, which catches
\* JSONDecodeError around json.loads only: the program does not start.
Load ==
    /\ store = "down"
    /\ IF \E i \in 1..Len(disk) : Undecodable(disk[i])
       THEN /\ event' = Ev("load_raised", "")
            /\ UNCHANGED <<memories, memory_count, store, before>>
       ELSE /\ memories' = _load(disk)
            /\ memory_count' = Len(memories')
            /\ store' = "ready"
            /\ before' = [memories |-> memories', disk |-> disk]
            /\ event' = Ev("loaded", "")
    /\ UNCHANGED <<disk, agentvars>>

NextStore ==
    \/ AddCalled
    \/ DeleteCalled
    \/ SaveOpen
    \/ SaveWrite
    \/ SaveClose
    \/ Exit
    \/ Damage
    \/ Load

SpecStore == Init /\ [][NextStore]_vars

----------------------------------------------------------------------------
(* MemoryStore.add as a function of the length of the content: one add, as *)
(* a whole, of a text of n different words to a store without records.     *)

Numbered(n) == [i \in 1..n |-> i]

\* MemoryStore.add with _save, and the count set by its caller
Added(content, tags, mem_type) ==
    \E ids \in [1..Len(_chunk(content)) -> Ids] :
        /\ store = "ready"
        /\ memories' = add(content, tags, mem_type, ids)
        /\ disk' = saved(memories')
        /\ memory_count' = Len(memories')
        /\ before' = [memories |-> memories', disk |-> disk']
        /\ event' = Ev("added", content)
        /\ UNCHANGED <<store, agentvars>>

AddWords ==
    \E n \in 0..MaxWords :
        memories = <<>> /\ Added(Text(Numbered(n)), <<>>, "project")

NextChunk == AddWords

SpecChunk == Init /\ [][NextChunk]_vars

----------------------------------------------------------------------------
(* MemoryStore.search.  A query is the list of its tokens.  A score is a   *)
(* sum of tf / total * ln((N + 1) / (df + 1)); two scores are compared     *)
(* exactly, by the powers of the ratios: for a, b > 0,                     *)
(*   x / a <= y / b  iff  exp(b * x) <= exp(a * y).                        *)

\* re.findall(r"\w+", text.lower()) of the content and the tags
DocTokens(mem) ==
    {mem.content.words[i] : i \in 1..Len(mem.content.words)}
      \cup {mem.tags[i] : i \in 1..Len(mem.tags)}

\* df[t]
df(term) == Cardinality({i \in 1..Len(memories) : term \in DocTokens(memories[i])})

\* A count over the tokens of the content and of the tags
tf_WithTags(mem, term) ==
    Cardinality({i \in 1..Len(mem.content.words) : mem.content.words[i] = term})
      + Cardinality({i \in 1..Len(mem.tags) : mem.tags[i] = term})

\* tf[term]: Counter(self._tokenize(mem["content"]))
tf(mem, term) ==
    Cardinality({i \in 1..Len(mem.content.words) : mem.content.words[i] = term})

\* sum(tf.values()) or 1
total(mem) == IF mem.content.words = <<>> THEN 1 ELSE Len(mem.content.words)

RECURSIVE Pow(_, _)
Pow(b, e) == IF e = 0 THEN 1 ELSE b * Pow(b, e - 1)

\* exp(scale * total(mem) * score) is ExpNum / ExpDen: the loop over
\* query_terms, one factor ((N + 1) / (df + 1)) ^ (tf * scale) per term of
\* the query that is among the tokens of the record.
RECURSIVE ExpNum(_, _, _)
ExpNum(mem, query, scale) ==
    IF query = <<>> THEN 1
    ELSE (IF Head(query) \in DocTokens(mem)
          THEN Pow(Len(memories) + 1, tf(mem, Head(query)) * scale)
          ELSE 1) * ExpNum(mem, Tail(query), scale)

RECURSIVE ExpDen(_, _, _)
ExpDen(mem, query, scale) ==
    IF query = <<>> THEN 1
    ELSE (IF Head(query) \in DocTokens(mem)
          THEN Pow(df(Head(query)) + 1, tf(mem, Head(query)) * scale)
          ELSE 1) * ExpDen(mem, Tail(query), scale)

\* if score > 0
Positive(mem, query) == ExpNum(mem, query, 1) > ExpDen(mem, query, 1)

\* score of a < score of b
ScoreLess(a, b, query) ==
    ExpNum(a, query, total(b)) * ExpDen(b, query, total(a))
      < ExpNum(b, query, total(a)) * ExpDen(a, query, total(b))

\* The indices of the records that get into scored
Scored(query) == {i \in 1..Len(memories) : Positive(memories[i], query)}

BeforeTiesReversed(i, j, less) ==
    \/ less[j][i]
    \/ ~less[i][j] /\ i > j

\* scored.sort(key=lambda x: x[0], reverse=True): i comes before j.  The
\* sort is stable: equal scores stay in the order of scored.  less[i][j]
\* is the comparison of the keys of the entries of records i and j.
Before(i, j, less) ==
    \/ less[j][i]
    \/ ~less[i][j] /\ i < j

\* The index at position p of scored after the sort
Ranked(p, scored, less) ==
    CHOOSE i \in scored :
        Cardinality({j \in scored : Before(j, i, less)}) = p - 1

search(query, top_k) ==
    IF memories = <<>> THEN <<>>
    ELSE IF query = <<>> THEN SubSeq(memories, 1, Min(top_k, Len(memories)))
    ELSE LET scored == Scored(query)
             less == [i \in scored |-> [j \in scored |->
                         ScoreLess(memories[i], memories[j], query)]]
         IN  [p \in 1..Min(top_k, Cardinality(scored)) |->
                 memories[Ranked(p, scored, less)]]

----------------------------------------------------------------------------
(* Searches of a store that short texts were added to *)

\* remember(content, tags): contents over two words, one of them with a tag
\* that is a third word
SearchCalls ==
    {<<Text(<<1>>), <<>>>>, <<Text(<<1, 2>>), <<>>>>, <<Text(<<2>>), <<3>>>>}

\* The tokens of a query; an empty string or one without a word character
\* has none.
Queries == {<<>>, <<1>>, <<1, 2>>, <<1, 1>>, <<2, 3>>}

AddSmall ==
    \E call \in SearchCalls :
        Len(memories) < MaxRecords /\ Added(call[1], call[2], "project")

\* search(query, top_k), as recall, /memory search and get_context call it
Searched(query, top_k) ==
    /\ store = "ready"
    /\ event' = [kind |-> "search", name |-> "", idx |-> idx,
                 n |-> Len(tool_calls), round |-> round, text |-> full_text,
                 hlen |-> Len(history), cuts |-> cuts, query |-> query,
                 top_k |-> top_k, result |-> search(query, top_k)]
    /\ UNCHANGED <<memvars, agentvars>>

SearchCalled == \E query \in Queries, top_k \in 1..MaxK : Searched(query, top_k)

NextSearch ==
    \/ AddSmall
    \/ SearchCalled

SpecSearch == Init /\ [][NextSearch]_vars

----------------------------------------------------------------------------
(* Searches with a query that says a word twice *)

\* "one two" and "one one two"
RepeatQueries == {<<1, 2>>, <<1, 1, 2>>}

SearchRepeating ==
    \E query \in RepeatQueries, top_k \in 1..MaxK : Searched(query, top_k)

NextRepeat ==
    \/ AddSmall
    \/ SearchRepeating

SpecRepeat == Init /\ [][NextRepeat]_vars

----------------------------------------------------------------------------
(* /memory forget on a store that short texts were added to *)

\* /memory forget <prefix>: MemoryStore.delete as a whole, with its _save,
\* and the count that handle_command sets when delete returned True.  The
\* event keeps the list and the file the command started from.
Forget ==
    \E prefix \in Prefixes :
        /\ store = "ready"
        /\ event' = [kind |-> "forget", name |-> prefix, idx |-> idx,
                     n |-> Len(tool_calls), round |-> round, text |-> full_text,
                     hlen |-> Len(history), cuts |-> cuts,
                     returned |-> (Matches(prefix) # {}),
                     memories |-> memories, disk |-> disk]
        /\ IF Matches(prefix) = {}
           THEN UNCHANGED <<memories, disk, memory_count, before>>
           ELSE /\ memories' = pop(FirstMatch(prefix))
                /\ disk' = saved(memories')
                /\ memory_count' = Len(memories')
                /\ before' = [memories |-> memories', disk |-> disk']
        /\ UNCHANGED <<store, agentvars>>

NextForget ==
    \/ AddSmall
    \/ Forget

SpecForget == Init /\ [][NextForget]_vars

----------------------------------------------------------------------------
(* MemoryStore.get_context.  A query string is whether it is empty and the *)
(* list of its tokens; the result is the list of its lines, none for "".   *)

\* The query strings: "", one without a word character, and one word.
ContextQueries ==
    {[empty |-> TRUE, tokens |-> <<>>], [empty |-> FALSE, tokens |-> <<>>],
     [empty |-> FALSE, tokens |-> <<1>>]}

\* f"- {prefix} {mem['content']}": the type, the tags and the content
bullet(mem) == [type |-> mem.type, tags |-> mem.tags, content |-> mem.content]

\* self.memories[-max_memories:]
last(max_memories) ==
    IF max_memories = 0 THEN memories
    ELSE SubSeq(memories, Len(memories) - Min(max_memories, Len(memories)) + 1,
                Len(memories))

digest(mems) ==
    IF mems = <<>> THEN <<>>
    ELSE <<"## Relevant Project Memories">>
           \o [p \in 1..Len(mems) |-> bullet(mems[p])]

get_context_Oldest(query, max_memories) ==
    digest(IF ~query.empty THEN search(query.tokens, max_memories)
           ELSE IF memories # <<>>
           THEN SubSeq(memories, 1, Min(max_memories, Len(memories)))
           ELSE <<>>)

get_context(query, max_memories) ==
    digest(IF ~query.empty THEN search(query.tokens, max_memories)
           ELSE IF memories # <<>> THEN last(max_memories) ELSE <<>>)

ContextCalled ==
    \E query \in ContextQueries, max_memories \in 1..MaxK :
        /\ store = "ready"
        /\ event' = [kind |-> "context", name |-> "", idx |-> idx,
                     n |-> Len(tool_calls), round |-> round, text |-> full_text,
                     hlen |-> Len(history), cuts |-> cuts, query |-> query,
                     max_memories |-> max_memories,
                     result |-> get_context(query, max_memories)]
        /\ UNCHANGED <<memvars, agentvars>>

NextContext ==
    \/ AddSmall
    \/ ContextCalled

SpecContext == Init /\ [][NextContext]_vars

----------------------------------------------------------------------------
(* The commands of the REPL between runs of text and remember calls *)

BackendRememberOnce == frames < MaxFrames /\ BackendRemember

NextCommands ==
    \/ UserTurn
    \/ BackendText
    \/ BackendRememberOnce
    \/ StreamEnd
    \/ Remember
    \/ Reset
    \/ Plan
    \/ SetModel

SpecCommands == Init /\ [][NextCommands]_vars

----------------------------------------------------------------------------
(* Runs of shell commands: a backend that asks for run_command only *)

BackendRunCommand == frames < MaxFrames /\ RecvToolCall("run_command")

NextShell ==
    \/ UserTurn
    \/ BackendRunCommand
    \/ StreamEnd
    \/ RequestApproval
    \/ Approve
    \/ Deny
    \/ ExecuteTool
    \/ CommandTimeout

SpecShell == Init /\ [][NextShell]_vars

----------------------------------------------------------------------------
(* The approval prompt with its replies: a reply is the line typed at the  *)
(* prompt, or the prompt is cancelled (Ctrl+C, Ctrl+D on an empty line)    *)
(* and get_input returns None.                                             *)

\* One pass of the loop of CursesUI.get_approval: "True" and "False" are
\* what it returns, "again" is the next pass.
get_approval(resp) ==
    LET lower(s) == [i \in 1..Len(s) |->
                       CASE s[i] = "Y" -> "y" [] s[i] = "E" -> "e"
                         [] s[i] = "S" -> "s" [] s[i] = "N" -> "n"
                         [] s[i] = "O" -> "o" [] OTHER -> s[i]]
        answer == lower(strip(resp.text))
    IN  IF resp.cancelled THEN "False"
        ELSE IF answer \in {<<"y">>, <<"y", "e", "s">>, <<>>} THEN "True"
        ELSE IF answer \in {<<"n">>, <<"n", "o">>} THEN "False"
        ELSE "again"

\* agent.py lines 153-158 with a reply at the prompt
ApprovalReply ==
    \E cancelled \in BOOLEAN :
      \E text \in IF cancelled THEN {<<>>}
                  ELSE {<<>>, <<"y">>, <<"Y">>, <<"y", "e", "s">>, <<"n">>,
                        <<"n", "o">>, <<"x">>, <<" ">>} :
        LET resp == [cancelled |-> cancelled, text |-> text]
            answer == get_approval(resp)
        IN  /\ pc = "approval"
            /\ CASE answer = "True" ->
                       /\ pc' = "execute"
                       /\ log' = Logged("accept")
                       /\ UNCHANGED <<history, round, full_text, tool_calls, idx,
                                      outcome, round_hist>>
                  [] answer = "False" ->
                       /\ AfterDenial(Append(history, denial_msg(Current)))
                       /\ log' = Logged("deny")
                  [] OTHER ->
                       UNCHANGED <<history, pc, round, full_text, tool_calls, idx,
                                   outcome, round_hist, log>>
            /\ event' = [kind |-> "reply", name |-> Current, resp |-> resp,
                         idx |-> idx, n |-> Len(tool_calls), round |-> round,
                         text |-> full_text, hlen |-> Len(history), cuts |-> cuts]
            /\ UNCHANGED <<memvars, turns, frames, cuts, all_tool_rounds>>
            /\ UNCHANGED <<settings, processes, scanner, file>>

NextApproval ==
    \/ UserTurn
    \/ BackendRunCommand
    \/ StreamEnd
    \/ RequestApproval
    \/ ApprovalReply
    \/ ExecuteTool

SpecApproval == Init /\ [][NextApproval]_vars

----------------------------------------------------------------------------
(* The stream line by line: a frame is the JSON object of a line, with its *)
(* done flag, the content of its message and the names of its tool calls.  *)

\* Every frame gives what it carries
emitted_All(chunk) == [calls |-> chunk.tool_calls, text |-> chunk.content]

\* What chat_stream yields for a frame: nothing but the end for a frame
\* with done (llm.py lines 70-73), else its tool calls and then its
\* content when not empty (llm.py lines 75-92).
emitted(chunk) ==
    IF chunk.done THEN [calls |-> <<>>, text |-> <<>>]
    ELSE [calls |-> chunk.tool_calls, text |-> chunk.content]

\* A line of the response is read: agent.py lines 49-54 for what the frame
\* yields and, when the generator returns, lines 63-82.
RecvFrame ==
    \E chunk \in [done : BOOLEAN, content : {<<>>, <<"a">>},
                  tool_calls : {<<>>, <<"read_file">>}] :
      LET text == full_text \o emitted(chunk).text
          calls == tool_calls \o emitted(chunk).calls
          clean == clean_text(text)
          h == IF ShouldRecord(clean, calls)
               THEN Append(history, assistant_msg(clean, calls))
               ELSE history
      IN  /\ pc = "stream"
          /\ IF chunk.done
             THEN /\ IF calls = <<>>
                     THEN Leave(h, "returned")
                     ELSE /\ history' = h
                          /\ pc' = "dispatch"
                          /\ idx' = 1
                          /\ full_text' = <<>>
                          /\ tool_calls' = calls
                          /\ UNCHANGED <<round, round_hist, outcome>>
                  /\ all_tool_rounds' = (all_tool_rounds /\ NonTerminalBatch(calls))
                  /\ cuts' = {}
                  /\ stream_end
                  /\ UNCHANGED frames
             ELSE /\ frames < MaxFrames
                  /\ frames' = frames + 1
                  /\ full_text' = text
                  /\ tool_calls' = calls
                  /\ cuts' = IF emitted(chunk).text # <<>>
                             THEN cuts \cup {Len(text)} ELSE cuts
                  /\ IF emitted(chunk).text # <<>>
                     THEN stream_token(emitted(chunk).text)
                     ELSE UNCHANGED scanner
                  /\ UNCHANGED <<history, pc, round, idx, outcome, round_hist,
                                 all_tool_rounds>>
          /\ event' = [Ev(IF chunk.done THEN "done" ELSE "frame", "")
                         EXCEPT !.name = chunk]
          /\ UNCHANGED <<memvars, turns, log, settings, processes, file>>

NextFrames ==
    \/ UserTurn
    \/ RecvFrame
    \/ StreamEnd
    \/ ExecuteTool

SpecFrames == Init /\ [][NextFrames]_vars

----------------------------------------------------------------------------
(* edit_file on one file.  The file holds characters; between two calls it *)
(* is written by write_file or by the user's editor.                       *)

\* content.count(old_text): the occurrences met from left to right, each
\* search going on behind the occurrence before
RECURSIVE count(_, _)
count(s, p) ==
    IF Contains(s, p) THEN 1 + count(partition(s, p).after, p) ELSE 0

\* tools.py lines 50-68: the string returned and the file afterwards.  A
\* file opened in text mode is read with every line ending as a line feed
\* and written with the line feeds as they are (POSIX).
edit_file(f, old_text, new_text) ==
    LET RECURSIVE read(_)
        read(s) ==
            IF s = <<>> THEN <<>>
            ELSE IF Head(s) = "\r"
                 THEN <<"\n">> \o read(IF Len(s) > 1 /\ s[2] = "\n"
                                        THEN Tail(Tail(s)) ELSE Tail(s))
                 ELSE <<Head(s)>> \o read(Tail(s))
        content == read(f.data)
        new_content == partition(content, old_text).before \o new_text
                         \o partition(content, old_text).after
    IN  IF ~f.exists THEN [result |-> "Error: File not found", file |-> f]
        ELSE IF count(content, old_text) = 0
             THEN [result |-> "Error: old_text not found in file.", file |-> f]
        ELSE IF count(content, old_text) > 1
             THEN [result |-> "Warning: old_text found", file |-> f]
        ELSE [result |-> "Edited",
              file |-> [exists |-> TRUE, data |-> new_content]]

\* The file is created or overwritten from outside the call
FileWritten ==
    \E data \in {<<"b">>, <<"a", "b">>, <<"a", "a", "a">>, <<"a", "\r", "\n", "b">>} :
        /\ pc = "idle"
        /\ file' = [exists |-> TRUE, data |-> data]
        /\ event' = Ev("file_written", "")
        /\ UNCHANGED <<memvars, history, pc, round, full_text, tool_calls, idx,
                       outcome, turns, frames, log, round_hist, cuts,
                       all_tool_rounds, settings, processes, scanner>>

\* agent.py line 158 and lines 99-104 for edit_file, with its arguments
ExecuteEdit ==
    \E old_text \in {<<"a">>, <<"a", "a">>, <<"c">>}, new_text \in {<<>>, <<"x">>} :
      LET r == edit_file(file, old_text, new_text)
      IN  /\ pc = "execute"
          /\ Current = "edit_file"
          /\ file' = r.file
          /\ AfterResult(Append(history, tool_msg(<<r.result, Current>>)), Current)
          /\ event' = [Ev("edit", "") EXCEPT
                         !.name = [file |-> file, old_text |-> old_text,
                                   new_text |-> new_text, result |-> r.result]]
          /\ log' = Logged("run")
          /\ UNCHANGED <<memvars, turns, frames, cuts, all_tool_rounds, settings,
                         processes, scanner>>

NextEdit ==
    \/ FirstTurn
    \/ FileWritten
    \/ frames < MaxFrames /\ RecvToolCall("edit_file")
    \/ StreamEnd
    \/ RequestApproval
    \/ Approve
    \/ ExecuteEdit

SpecEdit == Init /\ [][NextEdit]_vars

----------------------------------------------------------------------------
(* The request of a round: agent.py line 41 with _system_message and       *)
(* prompts.py build_system_prompt.  The prompt is its parts.               *)

\* get_context(self, query="", max_memories=5)
DefaultMax == 5

\* The line of the user that user_msg holds, as a query: one word
user_input == [empty |-> FALSE, tokens |-> <<1>>]

build_system_prompt(memory_context, planning_mode) ==
    [base |-> "BASE_PROMPT", context |-> memory_context,
     mode |-> IF planning_mode THEN "PLANNING_ADDENDUM" ELSE "DIRECT_ADDENDUM"]

_system_message_Recent(input) ==
    [role |-> "system",
     content |-> build_system_prompt(
                     get_context([empty |-> TRUE, tokens |-> <<>>], DefaultMax),
                     planning)]

_system_message(input) ==
    [role |-> "system",
     content |-> build_system_prompt(get_context(input, DefaultMax), planning)]

\* messages = [self._system_message(user_input)] + self.history, the value
\* of the expression in the current state; run evaluates it when a round
\* begins.
messages == <<_system_message(user_input)>> \o history

\* The contents the backend asks to remember
Notes == {Text(<<1>>), Text(<<2>>)}

RememberAny == \E content \in Notes : Remembers(content)

NextPrompt ==
    \/ UserTurn
    \/ Plan
    \/ BackendRememberOnce
    \/ StreamEnd
    \/ RememberAny

SpecPrompt == Init /\ [][NextPrompt]_vars

----------------------------------------------------------------------------
(* One user turn with a backend that asks for tools in every round: for a  *)
(* question or a gated write while the frames are within their bound, for  *)
(* one recall per round afterwards.  Every stream ends, the collaborator   *)
(* answers every prompt and every tool returns.                            *)

BackendAsks ==
    IF frames < MaxFrames
    THEN \E name \in {"ask_user", "write_file"} : RecvToolCall(name)
    ELSE tool_calls = <<>> /\ RecvToolCall("recall")

\* The steps that the end of a stream, an answer of the collaborator, the
\* return of a tool and the code of run itself bring about
Proceeds ==
    \/ StreamEnd
    \/ StreamError
    \/ InterruptStream
    \/ AskUser
    \/ Answer
    \/ InterruptQuestion
    \/ Recall
    \/ RequestApproval
    \/ Approve
    \/ Deny
    \/ InterruptApproval
    \/ ExecuteTool

NextLive ==
    \/ FirstTurn
    \/ BackendAsks
    \/ Proceeds

SpecLive == Init /\ [][NextLive]_vars /\ WF_vars(Proceeds)

----------------------------------------------------------------------------
(* Properties *)

Last(h) == h[Len(h)]

\* The calls of the log that ended with a tool-role turn or a denial.
Processed == {"deny", "run", "unknown", "agent", "answer"}

IsDenial(e) == e.kind \in {"denied", "interrupt_approval"}

\* Where run is after appending a turn for the call event.idx of event.n in
\* round event.round, when it goes on with the loop.
WentOn ==
    IF event.idx < event.n
    THEN pc = "dispatch" /\ idx = event.idx + 1 /\ round = event.round
    ELSE IF event.round < max_tool_rounds
    THEN pc = "stream" /\ round = event.round + 1 /\ history = round_hist
    ELSE pc = "idle" /\ outcome = "max_rounds"

\* C1: a call of run_command, write_file or edit_file reaches its tool
\* function only after the approval collaborator accepted that call; a denied
\* call never reaches it, and the step that denies it appends the turn
\* 'User denied execution of <name>.' and nothing else.
C1_GateBeforeExecution ==
    /\ \A k \in 1..Len(log) :
         (log[k].op = "run" /\ log[k].name \in {"run_command", "write_file", "edit_file"})
           => \E j \in 1..(k - 1) :
                 /\ log[j].op = "accept"
                 /\ log[j].round = log[k].round
                 /\ log[j].idx = log[k].idx
                 /\ log[j].name = log[k].name
    /\ \A k \in 1..Len(log) :
         log[k].op = "deny"
           => \A m \in 1..Len(log) :
                 (log[m].round = log[k].round /\ log[m].idx = log[k].idx)
                   => log[m].op \in {"ask", "deny"}
    /\ IsDenial(event)
         => /\ Len(history) = event.hlen + 1
            /\ Last(history) = denial_msg(event.name)

\* C1 witness: in one run a gated call was denied and another one was
\* accepted and executed.
C1_Witness ==
    \E j, k \in 1..Len(log) :
        /\ log[j].op = "deny"
        /\ log[k].op = "run"
        /\ log[k].name \in {"run_command", "write_file", "edit_file"}

\* C2: whenever run has returned, every assistant turn with tool calls is
\* followed by exactly one tool-role turn per call, in the order of the calls
\* (stated for the runs that return; the claim says it of those that raise too).
C2_EveryCallAnswered ==
    (pc = "idle" /\ outcome \in {"none", "returned", "llm_error", "max_rounds"}) =>
      \A p \in 1..Len(history) :
        (history[p].role = "assistant" /\ history[p].tool_calls # <<>>)
          => LET n == Len(history[p].tool_calls)
             IN  /\ p + n <= Len(history)
                 /\ \A j \in 1..n :
                      /\ history[p + j].role = "tool"
                      /\ history[p + j].content # <<>>
                           => history[p + j].content[2] = history[p].tool_calls[j]
                 /\ (p + n < Len(history) => history[p + n + 1].role # "tool")

\* C3: once task_complete has been executed at position i of a batch, its
\* result is the last turn of history, run has returned in the same round, and
\* nothing was done with a call after position i.
C3_TerminalToolEndsTurn ==
    \A k \in 1..Len(log) :
        (log[k].op = "agent" /\ log[k].name = "task_complete")
          => /\ k = Len(log)
             /\ pc = "idle"
             /\ outcome = "returned"
             /\ round = log[k].round
             /\ Last(history) = tool_msg(<<"Task summary saved to memory.", "task_complete">>)
             /\ \A m \in 1..Len(log) :
                   log[m].round = log[k].round => log[m].idx <= log[k].idx

\* C3 witness: task_complete was executed as the first of two calls.
C3_Witness ==
    /\ event.kind = "task_complete"
    /\ event.idx = 1
    /\ event.n = 2
    /\ pc = "idle"

\* C4 (as amended): the step that denies a gated call appends the denial
\* turn and goes on with the loop: to the next call of the batch when there
\* is one, else to the next round, or to the end of the loop after the last.
C4_DenialGoesOn ==
    IsDenial(event)
      => /\ Len(history) = event.hlen + 1
         /\ Last(history) = denial_msg(event.name)
         /\ outcome = (IF pc = "idle" THEN "max_rounds" ELSE "running")
         /\ WentOn

\* C4 witness: the first of two calls was denied and the second is up next.
C4_Witness ==
    /\ event.kind = "denied"
    /\ event.idx = 1
    /\ event.n = 2
    /\ pc = "dispatch"
    /\ idx = 2

\* C4 (as stated): in a run that ended without an exception, after a denial
\* every later call of the batch was processed and a next round was started.
C4_AsStated ==
    (pc = "idle" /\ outcome # "agent_error")
      => \A k \in 1..Len(log) :
           log[k].op = "deny"
             => /\ \A i \in (log[k].idx + 1)..log[k].n :
                     \E m \in (k + 1)..Len(log) :
                         /\ log[m].round = log[k].round
                         /\ log[m].idx = i
                         /\ log[m].op \in Processed
                /\ round > log[k].round

\* C5: a run in which every round's stream brought a non-empty batch without
\* task_complete ends in round max_tool_rounds with the 'maximum tool rounds'
\* notice, and neither reports nor raises an error.
C5_StopsAtMaxRounds ==
    (pc = "idle" /\ all_tool_rounds)
      => round = max_tool_rounds /\ outcome = "max_rounds"

\* The part of C5 that the loop decides: such a run, when no tool raises, ends
\* in round max_tool_rounds with the notice.
StopsAtMaxRoundsUnlessRaised ==
    (pc = "idle" /\ all_tool_rounds /\ outcome # "agent_error")
      => round = max_tool_rounds /\ outcome = "max_rounds"

ReachesMaxRounds == pc = "idle" /\ outcome = "max_rounds"

\* C6 (as amended): when the first round's stream ends with text and no tool
\* call, run returns in that round without touching any tool, having appended
\* one assistant turn with the cleaned text when that is not empty, and
\* nothing when it is.
C6_TextOnlyFirstRound ==
    (event.kind = "stream_end" /\ event.round = 1 /\ event.text # <<>> /\ event.n = 0)
      => /\ pc = "idle"
         /\ outcome = "returned"
         /\ round = 1
         /\ log = <<>>
         /\ round_hist = SubSeq(history, 1, event.hlen)
         /\ history = IF clean_text(event.text) # <<>>
                      THEN Append(round_hist,
                                  assistant_msg(clean_text(event.text), <<>>))
                      ELSE round_hist

\* C6 witness: a first round of visible text ended with one assistant turn.
C6_Witness ==
    /\ event.kind = "stream_end"
    /\ event.round = 1
    /\ event.n = 0
    /\ event.text = <<"a", " ">>
    /\ Len(history) = event.hlen + 1
    /\ Last(history) = assistant_msg(<<"a">>, <<>>)

\* C6 (as stated): when the first round's stream ends with text and no tool
\* call, exactly one assistant turn has been appended and run has returned.
C6_AsStated ==
    (event.kind = "stream_end" /\ event.round = 1 /\ event.text # <<>> /\ event.n = 0)
      => /\ pc = "idle"
         /\ outcome = "returned"
         /\ round = 1
         /\ log = <<>>
         /\ Len(history) = event.hlen + 1
         /\ Last(history).role = "assistant"

\* C7: when the stream of a round fails, run returns with the error shown,
\* in the same round, with history as it was when the round began and
\* without anything done with a call of that round.
C7_StreamFailureAborts ==
    event.kind \in {"stream_error", "malformed_frame"}
      => /\ pc = "idle"
         /\ outcome = "llm_error"
         /\ round = event.round
         /\ history = round_hist
         /\ Len(history) = event.hlen
         /\ \A k \in 1..Len(log) : log[k].round # event.round

\* C7 witness: the stream of the second round failed after it had brought
\* a tool call.
C7_Witness ==
    /\ event.kind = "stream_error"
    /\ event.round = 2
    /\ event.n = 1
    /\ pc = "idle"

\* C8: an interrupt at a suspension point (the stream, the approval prompt,
\* the question prompt) ends the run as 'interrupted' and appends nothing.
C8_InterruptIsDistinct ==
    event.kind \in {"interrupt_stream", "interrupt_approval", "interrupt_question"}
      => /\ pc = "idle"
         /\ outcome = "interrupted"
         /\ Len(history) = event.hlen

\* C9: an unparseable frame is skipped: the round goes on reading the stream
\* with the text and the tool calls it has.
C9_MalformedFrameSkipped ==
    event.kind = "malformed_frame"
      => /\ pc = "stream"
         /\ outcome = "running"
         /\ full_text = event.text
         /\ Len(tool_calls) = event.n

\* C10: a tool call that fails, by an error text or by raising, gets exactly
\* one tool-role turn with the error text, and the loop goes on.
C10_ToolFailureNonFatal ==
    event.kind \in {"tool_error", "tool_raised"}
      => /\ Len(history) = event.hlen + 1
         /\ Last(history).role = "tool"
         /\ Last(history).content[1] = "Error"
         /\ WentOn

\* C11 (as amended): when the stream of a round ends and its text is a
\* thinking block with text before and after it, the assistant turn holds
\* the text before and after the block, joined, without the whitespace at
\* its two ends (and no turn is appended when that leaves nothing), however
\* the text was cut into frames.
C11_BlockRemovedAndTrimmed ==
    \A pre \in Pre, body \in Body, post \in Post :
        (event.kind = "stream_end"
           /\ event.text = pre \o OpenTag \o body \o CloseTag \o post)
          => IF \A i \in 1..Len(pre \o post) : (pre \o post)[i] \in Whitespace
             THEN history = round_hist /\ Len(history) = event.hlen
             ELSE /\ Len(history) = event.hlen + 1
                  /\ Last(history) = assistant_msg(strip(pre \o post), <<>>)

\* C11 witness: "a<th" then "ink>s</think>b" was persisted as "ab".
C11_Witness ==
    /\ event.kind = "stream_end"
    /\ event.text = <<"a">> \o OpenTag \o <<"s">> \o CloseTag \o <<"b">>
    /\ event.cuts = {Len(<<"a", "<", "t", "h">>), Len(event.text)}
    /\ Last(history) = assistant_msg(<<"a", "b">>, <<>>)

\* C11 (as stated): the assistant turn holds the text before and after the
\* block, joined, as it is.
C11_AsStated ==
    \A pre \in Pre, body \in Body, post \in Post :
        (event.kind = "stream_end"
           /\ event.text = pre \o OpenTag \o body \o CloseTag \o post
           /\ Len(history) = event.hlen + 1)
          => Last(history) = assistant_msg(pre \o post, <<>>)

\* C12: no assistant turn of history contains deliberation text, whether
\* the stream ended after the closing delimiter or inside the block.
C12_ReasoningNeverPersisted ==
    \A p \in 1..Len(history) :
        history[p].role = "assistant"
          => \A i \in 1..Len(history[p].content) : history[p].content[i] # "s"

\* C13: while an add or a delete is under way the file holds the complete
\* list of before the mutation or the complete list of after it.
C13_FileAlwaysComplete ==
    store \in {"save", "write"} => disk \in {before.disk, saved(memories)}

\* C14: when add or a successful delete returns, the file holds the records
\* of the list, one per line, in the order of the list.
C14_SavedBeforeReturn ==
    event.kind = "saved"
      => /\ store = "ready"
         /\ Len(disk) = Len(memories)
         /\ \A i \in 1..Len(memories) : disk[i] = dumps(memories[i])

\* C14 witness: an add of a text of more than max_tokens words has returned
\* with its two chunks the last two lines of the file.
C14_Witness ==
    /\ event.kind = "saved"
    /\ Len(memories) = 3
    /\ memories[2].content.ws = "single"
    /\ memories[3].content.ws = "single"
    /\ disk[3] = dumps(memories[3])

\* C15: a load never raises, and after it the list holds the records of the
\* readable lines of the file, in the order of the file.
C15_LoadNeverAborts ==
    /\ event.kind # "load_raised"
    /\ event.kind = "loaded"
         => /\ store = "ready"
            /\ Len(memories) = Cardinality({i \in 1..Len(disk) : disk[i].line = "json"})
            /\ \A i \in 1..Len(memories) :
                 \E j \in i..Len(disk) : disk[j] = dumps(memories[i])

\* C16: no two records of the list have the same id.
C16_IdsUnique ==
    \A i, j \in 1..Len(memories) : i # j => memories[i].id # memories[j].id

\* ceil(a / b) for b > 0 and a >= 0
CeilDiv(a, b) == (a + b - 1) \div b

\* The words of a record's content
Words(j) == memories[j].content.words

\* C17: add of a text of n words appends ceil((n - 500) / 450) + 1 records
\* when n > 500, and else one record with the text as it is.
C17_ChunkCount ==
    event.kind = "added"
      => LET n == Len(event.name.words)
         IN  IF n > max_tokens
             THEN Len(memories)
                    = CeilDiv(n - max_tokens, max_tokens - overlap) + 1
             ELSE Len(memories) = 1 /\ memories[1].content = event.name

\* C18: for a text of more than 500 words every chunk has at most 500
\* words, chunk j (counted from 0) starts at word 450 * j, the last 50 words
\* of every chunk but the last are the first 50 words of the next one, and
\* the chunks without these first 50 words, joined, are the text.
C18_ChunkOverlap ==
    (event.kind = "added" /\ Len(event.name.words) > max_tokens)
      => LET text == event.name.words
             step == max_tokens - overlap
         IN  /\ \A j \in 1..Len(memories) :
                  /\ Len(Words(j)) <= max_tokens
                  /\ Words(j)[1] = text[step * (j - 1) + 1]
             /\ \A j \in 1..(Len(memories) - 1) :
                  /\ Len(Words(j)) >= overlap
                  /\ Len(Words(j + 1)) >= overlap
                  /\ SubSeq(Words(j), Len(Words(j)) - overlap + 1, Len(Words(j)))
                       = SubSeq(Words(j + 1), 1, overlap)
             /\ \A i \in 1..Len(text) :
                  \E j \in 1..Len(memories) :
                      /\ (j = 1 \/ i > step * (j - 1) + overlap)
                      /\ i - step * (j - 1) <= Len(Words(j))
                      /\ Words(j)[i - step * (j - 1)] = text[i]

\* C19: search(query, top_k) returns at most top_k records, each the
\* record at some index of the list and no index twice, in an order of
\* non-increasing score, records of equal score in the order of the list.
C19_SearchRanked ==
    event.kind = "search"
      => LET r == event.result
             q == event.query
         IN  /\ Len(r) <= event.top_k
             /\ \E f \in [1..Len(r) -> 1..Len(memories)] :
                  /\ \A p \in 1..Len(r) : r[p] = memories[f[p]]
                  /\ \A p, p2 \in 1..Len(r) :
                       p < p2
                         => /\ f[p] # f[p2]
                            /\ ~ScoreLess(memories[f[p]], memories[f[p2]], q)
                            /\ ScoreLess(memories[f[p2]], memories[f[p]], q)
                                 \/ f[p] < f[p2]

\* C19 witness: a search with tokens found more records with a positive
\* score than top_k, the first record of the list among them, and returned
\* top_k records with another record first.
C19_Witness ==
    /\ event.kind = "search"
    /\ event.query # <<>>
    /\ Cardinality(Scored(event.query)) > event.top_k
    /\ Len(event.result) = event.top_k
    /\ 1 \in Scored(event.query)
    /\ event.result[1] # memories[1]

\* C20: a search without tokens on a store with records returns the top_k
\* records added last, the last one first.
C20_EmptyQueryMostRecent ==
    (event.kind = "search" /\ event.query = <<>> /\ memories # <<>>)
      => /\ Len(event.result) = Min(event.top_k, Len(memories))
         /\ \A p \in 1..Len(event.result) :
              event.result[p] = memories[Len(memories) - p + 1]

\* C21: delete(prefix) returns False and leaves the list and the file as
\* they were when no id starts with the prefix; else it returns True and
\* removes the first record, in the order of the list, whose id starts with
\* the prefix, and no other: the records before it and after it stay, in
\* their order, and the file holds the list that is left.
C21_DeleteFirstMatch ==
    event.kind = "forget"
      => LET old == event.memories
             M == {i \in 1..Len(old) : startswith(old[i].id, event.name)}
         IN  IF M = {}
             THEN ~event.returned /\ memories = old /\ disk = event.disk
             ELSE /\ event.returned
                  /\ \E i \in M :
                       /\ \A j \in M : i <= j
                       /\ Len(memories) = Len(old) - 1
                       /\ \A j \in 1..Len(memories) :
                            memories[j] = IF j < i THEN old[j] ELSE old[j + 1]
                  /\ disk = saved(memories)

\* C21 witness: of three records whose ids all start with the prefix, the
\* first two with different ids, the first was removed and no other.
C21_Witness ==
    /\ event.kind = "forget"
    /\ event.name = "id"
    /\ event.returned
    /\ Len(event.memories) = 3
    /\ event.memories[1].id # event.memories[2].id
    /\ memories = Tail(event.memories)

C23_NoEmptyTurn ==
    \A p \in 1..Len(history) :
        history[p].content # <<>> \/ history[p].tool_calls # <<>>

\* C24: every step leaves history as it is, or appends one turn at its
\* end, or is a reset that empties it: no turn is removed, reordered or
\* changed in place, so every earlier history since the last reset is a
\* prefix of the current one.
C24_AppendOnly ==
    [][\/ history' = history
       \/ /\ Len(history') = Len(history) + 1
          /\ SubSeq(history', 1, Len(history)) = history
       \/ event'.kind = "reset" /\ history' = <<>>]_vars

\* C24 witness: after a first run and a reset, the user turn of the second
\* run is the only turn of history.
C24_Witness ==
    /\ event.kind = "user"
    /\ turns = 2
    /\ outcome = "running"
    /\ history = <<user_msg>>

\* The steps of the log that begin the processing of a call
Begins == {"ask", "question", "run", "unknown", "agent", "raised"}

\* C25: while run is at call idx of a batch (dispatching it, or waiting for
\* its approval, its answer or its tool), history is the history of the
\* beginning of the round, the assistant turn with the batch, and one tool
\* turn for each of the calls 1..idx-1, in the order of the batch; nothing
\* was begun with a call before every earlier call of the batch had its
\* turn; and a frame is only consumed when no call is being processed.
C25_SequentialDispatch ==
    /\ pc \in {"dispatch", "approval", "question", "execute"}
         => /\ idx \in 1..Len(tool_calls)
            /\ Len(history) = Len(round_hist) + idx
            /\ SubSeq(history, 1, Len(round_hist)) = round_hist
            /\ history[Len(round_hist) + 1].role = "assistant"
            /\ history[Len(round_hist) + 1].tool_calls = tool_calls
            /\ \A j \in 1..(idx - 1) :
                 LET turn == history[Len(round_hist) + 1 + j]
                 IN  /\ turn.role = "tool"
                     /\ turn.content # <<>> => turn.content[2] = tool_calls[j]
    /\ \A k \in 1..Len(log) :
         log[k].op \in Begins
           => \A i \in 1..(log[k].idx - 1) :
                \E m \in 1..(k - 1) :
                    /\ log[m].round = log[k].round
                    /\ log[m].idx = i
                    /\ log[m].op \in Processed
    /\ event.kind \in {"text", "tool_call"} => event.idx = 0 /\ pc = "stream"

\* C25 witness: the first call of a batch of two different calls was
\* approved and executed, and run waits for the approval of the second.
C25_Witness ==
    /\ pc = "approval"
    /\ idx = 2
    /\ tool_calls[1] # tool_calls[2]
    /\ \E j, k \in 1..Len(log) :
         /\ j < k
         /\ log[j].op = "accept" /\ log[j].idx = 1
         /\ log[k].op = "run" /\ log[k].idx = 1

\* C26: a reset empties history and leaves the records of the store, the
\* file, the planning flag, the model name and the displayed count of
\* memories as they are.
C26_ResetOnlyHistory ==
    [][event'.kind = "reset"
         => /\ history' = <<>>
            /\ UNCHANGED <<memories, disk, planning, model, memory_count>>]_vars

\* C26 witness: a reset of a history with turns, in planning mode, with
\* another model than the first and a record in the store and in the file.
C26_Witness ==
    /\ event.kind = "reset"
    /\ event.hlen > 0
    /\ history = <<>>
    /\ planning
    /\ model = "llama3"
    /\ memories # <<>>
    /\ disk = saved(memories)
    /\ memory_count = Len(memories)

\* The part of C27 that the loop decides: a command that exceeds its
\* deadline gets one tool turn with the timeout text, and run goes on.
TimeoutResultAppended ==
    event.kind = "tool_timeout"
      => /\ Len(history) = event.hlen + 1
         /\ Last(history)
              = tool_msg(<<"Error: Command timed out after 60 seconds.", "run_command">>)
         /\ outcome = (IF pc = "idle" THEN "max_rounds" ELSE "running")
         /\ WentOn

\* C27: when a command has exceeded its deadline, no process of it is
\* running any more, its result is one tool turn with the timeout text, and
\* run goes on with the next call of the batch or the next round.
C27_TimeoutTerminates ==
    event.kind = "tool_timeout"
      => /\ processes = "none"
         /\ TimeoutResultAppended

\* The terms of a query, each once, in the order of their first occurrence
RECURSIVE Distinct(_)
Distinct(q) ==
    IF q = <<>> THEN <<>>
    ELSE LET front == SubSeq(q, 1, Len(q) - 1)
         IN  IF \E i \in 1..Len(front) : front[i] = q[Len(q)]
             THEN Distinct(front)
             ELSE Append(Distinct(front), q[Len(q)])

\* C28: a search returns what the search for the query with every repeated
\* term written once returns: the same records in the same order.
C28_RepeatedTermCountedOnce ==
    event.kind = "search"
      => event.result = search(Distinct(event.query), event.top_k)

\* A round has begun and no frame of its stream has been read: the state
\* in which run builds the messages of the round.
RoundBegins == pc = "stream" /\ full_text = <<>> /\ tool_calls = <<>>

C30_ScannerMatchesPersisted ==
    /\ (event.kind = "stream_end" /\ event.text \in Outputs)
         => strip(event.shown) = clean_text(event.text)
    /\ ~Contains(_think_buf, CloseTag)

\* The words of the content of a record
ContentTokens(mem) == {mem.content.words[i] : i \in 1..Len(mem.content.words)}

\* C31: a search with at least one token returns a record only if some
\* term of the query occurs in the content of the record and is among the
\* tokens (content and tags) of fewer records than the store holds; a store
\* of one record returns nothing.
C31_OnlyPositiveScores ==
    (event.kind = "search" /\ event.query # <<>>)
      => /\ \A p \in 1..Len(event.result) :
              \E k \in 1..Len(event.query) :
                  /\ event.query[k] \in ContentTokens(event.result[p])
                  /\ \E i \in 1..Len(memories) :
                        event.query[k] \notin DocTokens(memories[i])
         /\ Len(memories) = 1 => event.result = <<>>

\* C31 witness: a search with tokens for two records returned one record
\* only, of a store of two records or more, the other one holding a term of
\* the query.
C31_Witness ==
    /\ event.kind = "search"
    /\ event.query # <<>>
    /\ event.top_k = 2
    /\ Len(event.result) = 1
    /\ \E i \in 1..Len(memories) :
          /\ memories[i] # event.result[1]
          /\ \E k \in 1..Len(event.query) : event.query[k] \in DocTokens(memories[i])

\* C32: whenever no add or delete is under way, a MemoryStore opened on the
\* file holds the records of the list: as many, in the same order, each
\* with the same id, content, tags and type.
C32_RoundTrip ==
    store = "ready"
      => /\ \A i \in 1..Len(disk) : ~Undecodable(disk[i])
         /\ Len(_load(disk)) = Len(memories)
         /\ \A i \in 1..Len(memories) :
              /\ _load(disk)[i].id = memories[i].id
              /\ _load(disk)[i].content = memories[i].content
              /\ _load(disk)[i].tags = memories[i].tags
              /\ _load(disk)[i].type = memories[i].type

\* C32 witness: a store was opened on a file that an earlier session left
\* and holds two records or more, one with a line feed in its content and
\* one with a tag.
C32_Witness ==
    /\ event.kind = "loaded"
    /\ Len(memories) >= 2
    /\ disk = saved(memories)
    /\ \E i \in 1..Len(memories) :
          memories[i].content.ws = "typed" /\ Len(memories[i].content.words) > 1
    /\ \E i \in 1..Len(memories) : memories[i].tags # <<>>

\* C33: a run makes at most max_tool_rounds calls of the backend, and,
\* when every stream ends, the collaborator answers and every tool returns,
\* a run that has begun returns or raises.
C33_RunTerminates ==
    /\ [](round <= max_tool_rounds)
    /\ (pc # "idle") ~> (pc = "idle")

\* C33 witness: a run returned after max_tool_rounds rounds that each
\* brought a batch, with a question answered and a gated call executed
\* among them.
C33_Witness ==
    /\ pc = "idle"
    /\ outcome = "max_rounds"
    /\ round = max_tool_rounds
    /\ \E k \in 1..Len(log) : log[k].op = "answer"
    /\ \E k \in 1..Len(log) : log[k].op = "run"

\* C34: of the replies at the approval prompt, the empty one and 'y' and
\* 'yes' lead to the execution of the call and no other reply does; 'n',
\* 'no' and a cancelled prompt append the denial; every other reply leaves
\* the prompt open and the history as it was.
C34_ApprovalReplies ==
    event.kind = "reply"
      => LET reply == event.resp.text
             cancelled == event.resp.cancelled
             yes == {<<"y">>, <<"Y">>, <<"y", "e", "s">>}
             no == {<<"n">>, <<"n", "o">>}
         IN  /\ pc = "execute" => ~cancelled /\ reply \in yes \cup {<<>>}
             /\ (~cancelled /\ reply \in yes \cup {<<>>}) => pc = "execute"
             /\ (cancelled \/ reply \in no)
                  => /\ pc # "execute"
                     /\ Len(history) = event.hlen + 1
                     /\ Last(history) = denial_msg(event.name)
             /\ (~cancelled /\ reply \notin yes \cup no \cup {<<>>})
                  => pc = "approval" /\ Len(history) = event.hlen

\* C35: a frame with done, whatever it carries, and the end of the lines
\* without such a frame end the stream alike: the assistant turn, when one
\* is recorded, holds the cleaned text and the calls received before, the
\* batch that is dispatched is those calls, and the run returns when there
\* are none; nothing of the frame with done is recorded or dispatched.
C35_DoneEndsStream ==
    event.kind \in {"done", "stream_end"}
      => LET clean == clean_text(event.text)
         IN  /\ Len(tool_calls) = event.n
             /\ pc = (IF event.n = 0 THEN "idle" ELSE "dispatch")
             /\ full_text = <<>>
             /\ history = IF clean # <<>> \/ event.n > 0
                          THEN Append(round_hist, assistant_msg(clean, tool_calls))
                          ELSE round_hist

\* C35 witness: a frame with done that carried a content and a tool call
\* ended a stream that had brought a text and a call before it.
C35_Witness ==
    /\ event.kind = "done"
    /\ event.name.content # <<>>
    /\ event.name.tool_calls # <<>>
    /\ event.text # <<>>
    /\ event.n = 1
    /\ pc = "dispatch"

\* C36: whenever the program waits at the input prompt, the count in the
\* status line is the number of records of the store.
C36_CountMatchesStore ==
    (pc = "idle" /\ store = "ready") => memory_count = Len(memories)

\* The positions at which p begins in s
Occurrences(s, p) == {i \in 1..Len(s) : At(s, i, p)}

\* C37: edit_file changes the file exactly when old_text occurs exactly
\* once in it, and then the file is as before with new_text in the place
\* of that occurrence; with no occurrence it returns an error, with more
\* than one a message, and in both cases the file is as before.
C37_EditExactlyOnce ==
    (event.kind = "edit" /\ event.name.file.exists)
      => LET before_ == event.name.file.data
             old_text == event.name.old_text
             occ == Occurrences(before_, old_text)
             at == CHOOSE i \in occ : TRUE
         IN  /\ file.exists
             /\ file.data # before_ <=> Cardinality(occ) = 1
             /\ Cardinality(occ) = 1
                  => file.data = SubSeq(before_, 1, at - 1) \o event.name.new_text
                       \o SubSeq(before_, at + Len(old_text), Len(before_))
             /\ Cardinality(occ) = 0
                  => event.name.result = "Error: old_text not found in file."
             /\ Cardinality(occ) > 1
                  => event.name.result = "Warning: old_text found"

====
